---- MODULE Spec2Model ----
(***************************************************************************)
(* Model of custom_components/smartthings/number.py: the number platform   *)
(* of the SmartThings integration.                                         *)
(*                                                                         *)
(*   - async_setup_entry (the entity factory) walks the broker's devices,  *)
(*     builds SmartThingsNumber entities and hands them to                 *)
(*     async_add_entities in one batch;                                    *)
(*   - SmartThingsNumber (the adapter entity) reads value, bounds and unit *)
(*     from the device's status cache and forwards set_value to the        *)
(*     device's command method.                                            *)
(*                                                                         *)
(* Two specifications share the module: SpecSetup runs the factory over a  *)
(* bounded family of broker contents; SpecEntity runs one constructed      *)
(* entity against set_value calls, reads and external cache refreshes.     *)
(***************************************************************************)
EXTENDS Integers, Sequences, FiniteSets, TLC

VARIABLES
    \* ---- async_setup_entry ----
    devices,     \* broker.devices.values(): sequence of device records
    pc,          \* position of async_setup_entry
    di,          \* index of the device of the outer loop
    ci,          \* index of the component of the component loop
    ki,          \* index of the capability of the running capability loop
    numbers,     \* the local list `numbers`
    added,       \* the batches async_add_entities has been called with
    lookups,     \* the keys CAPABILITY_TO_NUMBER has been indexed with
    \* ---- SmartThingsNumber ----
    entity,      \* the fields __init__ stored (self._component, ...)
    status,      \* self._device.status: the device's status cache
    call,        \* position of async_set_native_value
    arg,         \* its parameter `value`, in tenths
    commands,    \* the calls of self._device.command made by the running call
    outcome,     \* what the remote command call did: pending, ok or an error
    result,      \* what the caller of async_set_native_value got back
    writes,      \* the states async_write_ha_state wrote in the running call
    observed     \* what the reads of native_value returned last: <<>> or <<value>>

setupVars == <<devices, pc, di, ci, ki, numbers, added, lookups>>
entityVars == <<entity, status, call, arg, commands, outcome, result, writes, observed>>
vars == <<devices, pc, di, ci, ki, numbers, added, lookups,
          entity, status, call, arg, commands, outcome, result, writes, observed>>

(***************************************************************************)
(* Python values                                                           *)
(***************************************************************************)
\* Python's None (a unit, a result or a read that is absent).
None == "None"

\* "main": the component the first loop binds and the properties special-case.
MAIN == "main"

\* Capability.thermostat_cooling_setpoint and Attribute.cooling_setpoint.
thermostat_cooling_setpoint == "thermostatCoolingSetpoint"
cooling_setpoint == "coolingSetpoint"

\* A capability some other platform's table knows and this one does not.
switch_level == "switchLevel"

\* UnitOfTemperature.CELSIUS / FAHRENHEIT.
CELSIUS == "°C"
FAHRENHEIT == "°F"

UNITS == [C |-> CELSIUS, F |-> FAHRENHEIT]

\* dict.get(key, default) on UNITS.
UNITS_get(key, default) == IF key \in DOMAIN UNITS THEN UNITS[key] ELSE default

\* The one descriptor of the table.
CoolingSetpointMap ==
    [attribute |-> cooling_setpoint, command |-> "set_cooling_setpoint",
     name |-> "Cooling Setpoint", unit_of_measurement |-> None,
     icon |-> "mdi:thermometer", min_value |-> -22, max_value |-> 500,
     step |-> 1, mode |-> "auto"]

CAPABILITY_TO_NUMBER ==
    [c \in {thermostat_cooling_setpoint} |-> <<CoolingSetpointMap>>]

(***************************************************************************)
(* SmartThingsNumber.__init__                                              *)
(***************************************************************************)
\* The fields the constructor stores; the device is kept by its id and label.
SmartThingsNumber(device, component, m) ==
    [device_id |-> device.device_id, label |-> device.label,
     component |-> component, attribute |-> m.attribute, command |-> m.command,
     name |-> m.name, unit_of_measurement |-> m.unit_of_measurement,
     icon |-> m.icon, min_value |-> m.min_value, max_value |-> m.max_value,
     step |-> m.step, mode |-> m.mode]

\* [SmartThingsNumber(device, component, m, ...) for m in maps]
RECURSIVE EntitiesFor(_, _, _)
EntitiesFor(device, component, maps) ==
    IF maps = <<>> THEN <<>>
    ELSE <<SmartThingsNumber(device, component, Head(maps))>>
         \o EntitiesFor(device, component, Tail(maps))

(***************************************************************************)
(* The broker's contents, as async_setup_entry reads them                  *)
(***************************************************************************)
\* Number of devices of the broker.
MaxDevices == 2

Range(seq) == {seq[k] : k \in 1..Len(seq)}

\* What broker.get_assigned(device_id, "number") returns for one device.
AssignedLists ==
    {<<>>, <<thermostat_cooling_setpoint>>,
     <<thermostat_cooling_setpoint, switch_level>>}

\* The capability list of one entry of device.components.
CapabilityLists ==
    {<<thermostat_cooling_setpoint>>, <<switch_level, thermostat_cooling_setpoint>>}

\* The keys device.components may hold.  The factory does not filter the
\* keys, so "main" is among them.
ComponentIds == {MAIN, "room2"}

\* device.components in iteration order: entries [id, capabilities], ids distinct.
ComponentMaps ==
    {<<>>}
    \cup {<<[id |-> c, capabilities |-> caps]>> :
             c \in ComponentIds, caps \in CapabilityLists}
    \cup {<<[id |-> MAIN, capabilities |-> caps1],
            [id |-> "room2", capabilities |-> caps2]>> :
             caps1 \in CapabilityLists, caps2 \in CapabilityLists}

DeviceShapes == [assigned : AssignedLists, components : ComponentMaps]

DeviceIdOf(k) == "d" \o ToString(k)
LabelOf(k) == "Device" \o ToString(k)

\* broker.get_assigned(device.device_id, "number")
get_assigned(device) == device.assigned

(***************************************************************************)
(* async_setup_entry                                                       *)
(***************************************************************************)
\* A variant that skips on a named component what the device-level result
\* already holds (the test inverted):
SkippedWhenAssigned(capability, device_capabilities_for_number) ==
    capability \in Range(device_capabilities_for_number)

\* A variant that never skips:
NeverSkipped(capability, device_capabilities_for_number) ==
    FALSE

\* `capability not in device_capabilities_for_number`, keyed by the
\* capability alone.
Skipped(capability, device_capabilities_for_number) ==
    capability \notin Range(device_capabilities_for_number)

\* CAPABILITY_TO_NUMBER[capability] raises KeyError.
KeyError(capability) == capability \notin DOMAIN CAPABILITY_TO_NUMBER

\* One iteration of `for capability in broker.get_assigned(...)`.
setup_assigned_capability ==
    /\ pc = "assigned_loop"
    /\ di <= Len(devices)
    /\ ki <= Len(get_assigned(devices[di]))
    /\ LET device == devices[di]
           capability == get_assigned(device)[ki]
       IN /\ lookups' = Append(lookups, [device_id |-> device.device_id,
                                         capability |-> capability])
          /\ IF KeyError(capability)
             THEN /\ pc' = "raised"
                  /\ UNCHANGED <<ki, numbers>>
             ELSE /\ numbers' = numbers \o
                        EntitiesFor(device, MAIN, CAPABILITY_TO_NUMBER[capability])
                  /\ ki' = ki + 1
                  /\ pc' = pc
    /\ UNCHANGED <<devices, di, ci, added>>
    /\ UNCHANGED entityVars

\* The first loop is exhausted: device_capabilities_for_number is read and
\* `for component in device.components` starts.
setup_components_start ==
    /\ pc = "assigned_loop"
    /\ di <= Len(devices)
    /\ ki > Len(get_assigned(devices[di]))
    /\ pc' = "component_loop"
    /\ ci' = 1
    /\ ki' = 1
    /\ UNCHANGED <<devices, di, numbers, added, lookups>>
    /\ UNCHANGED entityVars

\* One iteration of `for capability in device.components[component]`.
setup_component_capability ==
    /\ pc = "component_loop"
    /\ ci <= Len(devices[di].components)
    /\ ki <= Len(devices[di].components[ci].capabilities)
    /\ LET device == devices[di]
           component == device.components[ci].id
           capability == device.components[ci].capabilities[ki]
           device_capabilities_for_number == get_assigned(device)
       IN IF Skipped(capability, device_capabilities_for_number)
          THEN /\ ki' = ki + 1
               /\ UNCHANGED <<pc, numbers, lookups>>
          ELSE /\ lookups' = Append(lookups, [device_id |-> device.device_id,
                                              capability |-> capability])
               /\ IF KeyError(capability)
                  THEN /\ pc' = "raised"
                       /\ UNCHANGED <<ki, numbers>>
                  ELSE /\ numbers' = numbers \o
                             EntitiesFor(device, component,
                                         CAPABILITY_TO_NUMBER[capability])
                       /\ ki' = ki + 1
                       /\ pc' = pc
    /\ UNCHANGED <<devices, di, ci, added>>
    /\ UNCHANGED entityVars

\* The capability loop of one component is exhausted: next component.
setup_component_done ==
    /\ pc = "component_loop"
    /\ ci <= Len(devices[di].components)
    /\ ki > Len(devices[di].components[ci].capabilities)
    /\ ci' = ci + 1
    /\ ki' = 1
    /\ UNCHANGED <<devices, pc, di, numbers, added, lookups>>
    /\ UNCHANGED entityVars

\* A variant with async_add_entities(numbers) indented into the device loop.
setup_device_done_adds ==
    /\ pc = "component_loop"
    /\ ci > Len(devices[di].components)
    /\ di' = di + 1
    /\ ci' = 1
    /\ ki' = 1
    /\ pc' = "assigned_loop"
    /\ added' = Append(added, numbers)
    /\ UNCHANGED <<devices, numbers, lookups>>
    /\ UNCHANGED entityVars

\* The component loop is exhausted: next device.
setup_device_done ==
    /\ pc = "component_loop"
    /\ ci > Len(devices[di].components)
    /\ di' = di + 1
    /\ ci' = 1
    /\ ki' = 1
    /\ pc' = "assigned_loop"
    /\ UNCHANGED <<devices, numbers, added, lookups>>
    /\ UNCHANGED entityVars

\* The device loop is exhausted: async_add_entities(numbers).
setup_add_entities ==
    /\ pc = "assigned_loop"
    /\ di > Len(devices)
    /\ added' = Append(added, numbers)
    /\ pc' = "done"
    /\ UNCHANGED <<devices, di, ci, ki, numbers, lookups>>
    /\ UNCHANGED entityVars

(***************************************************************************)
(* SmartThingsNumber: the read path                                        *)
(***************************************************************************)
\* self._device.status.attributes[...] for "main",
\* self._device.status.components[component].attributes[...] otherwise.
StatusOf(self, st) ==
    IF self.component = MAIN
    THEN st.attributes[self.attribute]
    ELSE st.components[self.component].attributes[self.attribute]

\* A variant composing the same string whatever the component.
unique_id_always_component(self) ==
    self.device_id \o "." \o self.component \o "." \o self.attribute

unique_id(self) ==
    IF self.component = MAIN
    THEN self.device_id \o "." \o self.attribute
    ELSE self.device_id \o "." \o self.component \o "." \o self.attribute

name(self) ==
    IF self.component = MAIN
    THEN self.label \o " " \o self.name
    ELSE self.label \o " " \o self.component \o " " \o self.name

\* A variant reading the unit and the value of "main" for every component.
native_value_main_only(self, st) == st.attributes[self.attribute].value

native_value(self, st) ==
    IF self.component = MAIN
    THEN st.attributes[self.attribute].value
    ELSE st.components[self.component].attributes[self.attribute].value

\* A variant whose freezer branch falls through for Celsius.
native_min_value_no_freezer_C(self, st) ==
    LET unit == StatusOf(self, st).unit
    IN IF self.component = "cooler" /\ unit = "F" THEN 34
       ELSE IF self.component = "cooler" /\ unit = "C" THEN 1
       ELSE IF self.component = "freezer" /\ unit = "F" THEN -8
       ELSE self.min_value

native_min_value(self, st) ==
    LET unit == IF self.component = MAIN
                THEN st.attributes[self.attribute].unit
                ELSE st.components[self.component].attributes[self.attribute].unit
    IN IF self.component = "cooler" /\ unit = "F" THEN 34
       ELSE IF self.component = "cooler" /\ unit = "C" THEN 1
       ELSE IF self.component = "freezer" /\ unit = "F" THEN -8
       ELSE IF self.component = "freezer" /\ unit = "C" THEN -22
       ELSE self.min_value

native_max_value(self, st) ==
    LET unit == IF self.component = MAIN
                THEN st.attributes[self.attribute].unit
                ELSE st.components[self.component].attributes[self.attribute].unit
    IN IF self.component = "cooler" /\ unit = "F" THEN 44
       ELSE IF self.component = "cooler" /\ unit = "C" THEN 6
       ELSE IF self.component = "freezer" /\ unit = "F" THEN 5
       ELSE IF self.component = "freezer" /\ unit = "C" THEN -15
       ELSE self.max_value

\* Python's truth value of a unit: None and "" are false.
Truthy(unit) == unit # None /\ unit # ""

\* A variant without the `if unit` guard.
native_unit_of_measurement_unguarded(self, st) ==
    LET unit == StatusOf(self, st).unit
    IN UNITS_get(unit, unit)

native_unit_of_measurement(self, st) ==
    LET unit == IF self.component = MAIN
                THEN st.attributes[self.attribute].unit
                ELSE st.components[self.component].attributes[self.attribute].unit
    IN IF Truthy(unit) THEN UNITS_get(unit, unit) ELSE self.unit_of_measurement

(***************************************************************************)
(* SmartThingsNumber: the write path                                       *)
(***************************************************************************)
\* A variant rounding down.
int_floor(value) == value \div 10

\* int(value) of a float given in tenths: truncation toward zero.
int(value) == IF value >= 0 THEN value \div 10 ELSE -((-value) \div 10)

\* The arguments of self._device.command(...).
DeviceCommand(self, value) ==
    [component_id |-> self.component,
     capability |-> "thermostatCoolingSetpoint",
     command |-> "setCoolingSetpoint",
     args |-> <<int(value)>>]

\* What async_write_ha_state persists: the entity's read-path value.
StateWritten(self, st) == [state |-> native_value(self, st)]

\* The values set_value is called with, in tenths (21.7, -21.7, 21.5, -0.5, 3.0).
Values == {217, -217, 215, -5, 30}

\* The failures the remote command call can end with.
Errors == {"APIResponseError", "TimeoutError"}

\* The call runs to its suspension point: the log line and the command call.
async_set_native_value ==
    /\ call \in {"idle", "returned", "raised"}
    /\ \E value \in Values :
          /\ arg' = value
          /\ commands' = <<DeviceCommand(entity, value)>>
    /\ outcome' = "pending"
    /\ result' = "pending"
    /\ writes' = <<>>
    /\ call' = "awaiting"
    /\ UNCHANGED <<entity, status, observed>>
    /\ UNCHANGED setupVars

\* A variant of the commented-out call with set_status=True: the cache is
\* updated with the value sent.
command_returns_set_status ==
    /\ call = "awaiting"
    /\ outcome' = "ok"
    /\ status' = IF entity.component = MAIN
                 THEN [status EXCEPT !.attributes[entity.attribute].value = int(arg)]
                 ELSE [status EXCEPT !.components[entity.component]
                                        .attributes[entity.attribute].value = int(arg)]
    /\ writes' = Append(writes, StateWritten(entity, status'))
    /\ result' = None
    /\ call' = "returned"
    /\ UNCHANGED <<entity, arg, commands, observed>>
    /\ UNCHANGED setupVars

\* The awaited command call returns: async_write_ha_state, then return.
command_returns ==
    /\ call = "awaiting"
    /\ outcome' = "ok"
    /\ writes' = Append(writes, StateWritten(entity, status))
    /\ result' = None
    /\ call' = "returned"
    /\ UNCHANGED <<entity, status, arg, commands, observed>>
    /\ UNCHANGED setupVars

\* A variant that catches the failure and writes the state all the same.
command_raises_swallowed ==
    /\ call = "awaiting"
    /\ \E err \in Errors : outcome' = err
    /\ writes' = Append(writes, StateWritten(entity, status))
    /\ result' = None
    /\ call' = "returned"
    /\ UNCHANGED <<entity, status, arg, commands, observed>>
    /\ UNCHANGED setupVars

\* The awaited command call raises: nothing catches it.
command_raises ==
    /\ call = "awaiting"
    /\ \E err \in Errors :
          /\ outcome' = err
          /\ result' = err
    /\ call' = "raised"
    /\ UNCHANGED <<entity, status, arg, commands, writes, observed>>
    /\ UNCHANGED setupVars

\* The host framework reads native_value.
read_native_value ==
    /\ observed' = <<native_value(entity, status)>>
    /\ UNCHANGED <<entity, status, call, arg, commands, outcome, result, writes>>
    /\ UNCHANGED setupVars

(***************************************************************************)
(* The status cache, owned by the SDK and refreshed by the framework       *)
(***************************************************************************)
StatusUnits == {"F", "C", "K", "", None}
CacheValues == {3, 21}
Cells == [value : CacheValues, unit : StatusUnits]

\* The named component the device of the entity has: the entity's own, or
\* "cooler" for an entity bound to "main".
NamedComponent(self) == IF self.component = MAIN THEN "cooler" ELSE self.component

Statuses(self) ==
    [attributes : [{self.attribute} -> Cells],
     components : [{NamedComponent(self)} -> [attributes : [{self.attribute} -> Cells]]]]

\* A refresh of the cache by its owner: one cell takes a new value and unit.
refresh ==
    /\ \E cell \in Cells :
          \/ status' = [status EXCEPT !.attributes[entity.attribute] = cell]
          \/ status' = [status EXCEPT !.components[NamedComponent(entity)]
                                         .attributes[entity.attribute] = cell]
    /\ status' # status
    /\ UNCHANGED <<entity, call, arg, commands, outcome, result, writes, observed>>
    /\ UNCHANGED setupVars

(***************************************************************************)
(* Specifications                                                          *)
(***************************************************************************)
\* A descriptor the table could be extended with: other attribute, command,
\* unit and bounds than the cooling setpoint's.
HeatingSetpointMap ==
    [attribute |-> "heatingSetpoint", command |-> "set_heating_setpoint",
     name |-> "Heating Setpoint", unit_of_measurement |-> "%",
     icon |-> "mdi:thermometer", min_value |-> 5, max_value |-> 35,
     step |-> 1, mode |-> "box"]

MapSamples == {CoolingSetpointMap, HeatingSetpointMap}
EntityComponents == {MAIN, "cooler", "freezer", "room2"}

SetupIdle ==
    /\ devices = <<>>
    /\ pc = "not_started"
    /\ di = 1
    /\ ci = 1
    /\ ki = 1
    /\ numbers = <<>>
    /\ added = <<>>
    /\ lookups = <<>>

EntityIdle ==
    /\ entity = None
    /\ status = None
    /\ call = "idle"
    /\ arg = 0
    /\ commands = <<>>
    /\ outcome = "pending"
    /\ result = "pending"
    /\ writes = <<>>
    /\ observed = <<>>

\* async_setup_entry is entered: numbers = [] and the device loop starts.
InitSetup ==
    /\ \E n \in 0..MaxDevices :
          \E shapes \in [1..n -> DeviceShapes] :
             devices = [k \in 1..n |->
                          [device_id |-> DeviceIdOf(k), label |-> LabelOf(k),
                           assigned |-> shapes[k].assigned,
                           components |-> shapes[k].components]]
    /\ pc = "assigned_loop"
    /\ di = 1
    /\ ci = 1
    /\ ki = 1
    /\ numbers = <<>>
    /\ added = <<>>
    /\ lookups = <<>>
    /\ EntityIdle

NextSetup ==
    \/ setup_assigned_capability
    \/ setup_components_start
    \/ setup_component_capability
    \/ setup_component_done
    \/ setup_device_done
    \/ setup_add_entities

SpecSetup == InitSetup /\ [][NextSetup]_vars

\* One entity has been constructed for a device whose cache is populated.
InitEntity ==
    /\ \E component \in EntityComponents, m \in MapSamples :
          entity = SmartThingsNumber([device_id |-> DeviceIdOf(1), label |-> LabelOf(1)],
                                     component, m)
    /\ status \in Statuses(entity)
    /\ call = "idle"
    /\ arg = 0
    /\ commands = <<>>
    /\ outcome = "pending"
    /\ result = "pending"
    /\ writes = <<>>
    /\ observed = <<>>
    /\ SetupIdle

NextEntity ==
    \/ async_set_native_value
    \/ command_returns
    \/ command_raises
    \/ read_native_value
    \/ refresh

SpecEntity == InitEntity /\ [][NextEntity]_vars

(***************************************************************************)
(* Properties of async_setup_entry (checked under SpecSetup)               *)
(***************************************************************************)
\* Number of positions of seq that hold e.
Count(seq, e) == Cardinality({k \in 1..Len(seq) : seq[k] = e})

\* The descriptors of a capability, none for one the table lacks.
Descriptors(capability) ==
    IF capability \in DOMAIN CAPABILITY_TO_NUMBER
    THEN CAPABILITY_TO_NUMBER[capability] ELSE <<>>

AllAssignedKnown ==
    \A d \in 1..Len(devices) :
       \A capability \in Range(devices[d].assigned) :
          capability \in DOMAIN CAPABILITY_TO_NUMBER

\* (assigned capability, descriptor) pairs of device d: the "main" entities.
MainSlots(d) ==
    UNION {{<<k, m>> : m \in 1..Len(Descriptors(devices[d].assigned[k]))} :
              k \in 1..Len(devices[d].assigned)}

\* (component, capability, descriptor) triples of device d whose capability
\* is in the assigned result: the entities of the listed components.
ComponentSlots(d) ==
    UNION {UNION {{<<c, k, m>> :
                     m \in 1..Len(Descriptors(devices[d].components[c].capabilities[k]))} :
                  k \in {k \in 1..Len(devices[d].components[c].capabilities) :
                           devices[d].components[c].capabilities[k]
                              \in Range(devices[d].assigned)}} :
              c \in 1..Len(devices[d].components)}

MainSlotEntity(d, slot) ==
    SmartThingsNumber(devices[d], MAIN,
                      Descriptors(devices[d].assigned[slot[1]])[slot[2]])

ComponentSlotEntity(d, slot) ==
    SmartThingsNumber(devices[d], devices[d].components[slot[1]].id,
        Descriptors(devices[d].components[slot[1]].capabilities[slot[2]])[slot[3]])

\* How many times entity e belongs to the entity set of device d.
ExpectedCount(d, e) ==
    Cardinality({slot \in MainSlots(d) : MainSlotEntity(d, slot) = e})
    + Cardinality({slot \in ComponentSlots(d) : ComponentSlotEntity(d, slot) = e})

ExpectedEntities(d) ==
    {MainSlotEntity(d, slot) : slot \in MainSlots(d)}
    \cup {ComponentSlotEntity(d, slot) : slot \in ComponentSlots(d)}

\* The batch holds, of device d, exactly the device's entity set.
HoldsAllOf(batch, d) ==
    \A e \in ExpectedEntities(d)
            \cup {x \in Range(batch) : x.device_id = devices[d].device_id} :
       Count(batch, e) = ExpectedCount(d, e)

HoldsNoneOf(batch, d) ==
    \A x \in Range(batch) : x.device_id # devices[d].device_id

\* C3: async_add_entities is called at most once and only after the loops
\* over all devices have finished; a batch holds of each device either
\* nothing or its whole entity set; and when some assigned capability is
\* missing from CAPABILITY_TO_NUMBER the setup never reaches the call.
C3_RegistrationAfterConstruction ==
    /\ Len(added) <= 1
    /\ added # <<>> => pc = "done" /\ di > Len(devices)
    /\ pc = "done" => Len(added) = 1
    /\ \A b \in 1..Len(added) :
          \A d \in 1..Len(devices) :
             HoldsNoneOf(added[b], d) \/ HoldsAllOf(added[b], d)
    /\ ~AllAssignedKnown => added = <<>> /\ pc \notin {"done"}
    /\ pc = "raised" => added = <<>> /\ ~AllAssignedKnown

\* C3 witness: the lookup failed on the second device with entities of both
\* devices already constructed, and nothing was registered.
C3_Witness ==
    /\ pc = "raised"
    /\ di = 2
    /\ \E x \in Range(numbers) : x.device_id = devices[1].device_id
    /\ \E x \in Range(numbers) : x.device_id = devices[2].device_id
    /\ added = <<>>

\* C4: with every assigned capability in the table, the batch is exactly one
\* "main" entity per (assigned capability, descriptor) and one component
\* entity per (listed component, advertised capability in the assigned
\* result, descriptor); an advertised capability outside the assigned result
\* gives no entity and no table lookup.
C4_BatchIsExactlyTheSlots ==
    AllAssignedKnown =>
       /\ pc # "raised"
       /\ \A l \in Range(lookups) :
             \E d \in 1..Len(devices) :
                /\ devices[d].device_id = l.device_id
                /\ l.capability \in Range(devices[d].assigned)
       /\ pc = "done" =>
             /\ Len(added) = 1
             /\ \A d \in 1..Len(devices) : HoldsAllOf(added[1], d)
             /\ \A x \in Range(added[1]) :
                   \E d \in 1..Len(devices) : x.device_id = devices[d].device_id
             /\ \A d \in 1..Len(devices) :
                   Count([k \in 1..Len(lookups) |-> lookups[k].device_id],
                         devices[d].device_id)
                      = Len(devices[d].assigned)
                        + Cardinality({slot \in ComponentSlots(d) : slot[3] = 1})

\* C4 witness: a registered batch with a component entity, for a device one
\* of whose components also advertises a capability outside the assigned
\* result.
C4_Witness ==
    /\ pc = "done"
    /\ AllAssignedKnown
    /\ \E d \in 1..Len(devices) :
          /\ \E x \in Range(added[1]) :
                x.device_id = devices[d].device_id /\ x.component = "room2"
          /\ \E c \in 1..Len(devices[d].components) :
                switch_level \in Range(devices[d].components[c].capabilities)

\* The device of C5: thermostat_cooling_setpoint is assigned (so "main" gets
\* its entity) and a listed component "room2" advertises it too.
Room2Scenario(d) ==
    /\ thermostat_cooling_setpoint \in Range(devices[d].assigned)
    /\ \E c \in 1..Len(devices[d].components) :
          /\ devices[d].components[c].id = "room2"
          /\ thermostat_cooling_setpoint
                \in Range(devices[d].components[c].capabilities)

Room2Entities(batch, d) ==
    {k \in 1..Len(batch) :
        batch[k].device_id = devices[d].device_id /\ batch[k].component = "room2"}

MainEntities(batch, d) ==
    {k \in 1..Len(batch) :
        batch[k].device_id = devices[d].device_id /\ batch[k].component = MAIN}

\* C5 as stated: in the scenario the registered batch holds the "main"
\* entity of the device and no entity bound to "room2".
C5_NoRoom2Entity ==
    pc = "done" =>
       \A d \in 1..Len(devices) :
          Room2Scenario(d) =>
             /\ MainEntities(added[1], d) # {}
             /\ Room2Entities(added[1], d) = {}

\* C5 amended: in the scenario the registered batch holds the "main" entity
\* and also one entity per descriptor bound to "room2" (the skip test looks
\* at the capability alone); "room2" gets no entity only when the capability
\* it advertises is not in the assigned result.
C5_Room2EntityCreated ==
    pc = "done" =>
       \A d \in 1..Len(devices) :
          /\ Room2Scenario(d) =>
                /\ MainEntities(added[1], d) # {}
                /\ Cardinality(Room2Entities(added[1], d))
                      = Len(CAPABILITY_TO_NUMBER[thermostat_cooling_setpoint])
          /\ thermostat_cooling_setpoint \notin Range(devices[d].assigned) =>
                Room2Entities(added[1], d) = {}

C5_Witness ==
    /\ pc = "done"
    /\ \E d \in 1..Len(devices) :
          /\ Room2Scenario(d)
          /\ MAIN \notin {devices[d].components[c].id :
                            c \in 1..Len(devices[d].components)}
          /\ Cardinality(Room2Entities(added[1], d)) = 1
          /\ Cardinality(MainEntities(added[1], d)) = 1

\* C10: the entities of one registered batch have pairwise distinct unique
\* ids (the device ids of the broker are pairwise distinct).
C10_UniqueIdsDistinct ==
    pc = "done" =>
       \A i, j \in 1..Len(added[1]) :
          i # j => unique_id(added[1][i]) # unique_id(added[1][j])

(***************************************************************************)
(* Properties of SmartThingsNumber (checked under SpecEntity)              *)
(***************************************************************************)
\* Truncation toward zero of a value given in tenths: the integer t of the
\* value's sign with |t| <= |value| / 10 < |t| + 1.
TruncTowardZero(value) ==
    CHOOSE t \in -100..100 :
       IF value >= 0
       THEN 10 * t <= value /\ value < 10 * t + 10
       ELSE 10 * t >= value /\ value > 10 * t - 10

\* C1: a call of set_value(v) issues exactly one command call, addressed to
\* the entity's component, with capability "thermostatCoolingSetpoint",
\* command "setCoolingSetpoint" and arguments [trunc(v)], whatever the
\* entity's own command and attribute are.
C1_OneHardcodedCommand ==
    call # "idle" =>
       commands = <<[component_id |-> entity.component,
                     capability |-> "thermostatCoolingSetpoint",
                     command |-> "setCoolingSetpoint",
                     args |-> <<TruncTowardZero(arg)>>]>>

\* C1 witness: set_value(-21.7) on an entity whose descriptor names another
\* command and attribute sent [-21] to the entity's named component.
C1_Witness ==
    /\ call = "awaiting"
    /\ arg = -217
    /\ entity.command = "set_heating_setpoint"
    /\ entity.component = "freezer"
    /\ commands[1].args = <<-21>>
    /\ commands[1].component_id = "freezer"

\* C2: a failed command call reaches the caller unchanged, is not tried
\* again and writes no state; the state is written only after the command
\* call has returned, once per successful set_value.
C2_FailurePropagatesNoWrite ==
    /\ call = "raised" =>
          /\ outcome \in Errors
          /\ result = outcome
          /\ Len(commands) = 1
          /\ writes = <<>>
    /\ call = "awaiting" => writes = <<>> /\ Len(commands) = 1
    /\ call = "returned" =>
          /\ outcome = "ok"
          /\ result = None
          /\ Len(commands) = 1
          /\ Len(writes) = 1
    /\ writes # <<>> => outcome = "ok"

\* C2 witness: a call has failed with the remote's error at the caller.
C2_Witness ==
    /\ call = "raised"
    /\ outcome = "TimeoutError"
    /\ result = "TimeoutError"
    /\ writes = <<>>
    /\ Len(commands) = 1

\* The cached unit of the entity's (component, attribute).
CachedUnit ==
    IF entity.component = MAIN
    THEN status.attributes[entity.attribute].unit
    ELSE status.components[entity.component].attributes[entity.attribute].unit

\* The cached value of the entity's (component, attribute) in cache st.
CachedValue(st) ==
    IF entity.component = MAIN
    THEN st.attributes[entity.attribute].value
    ELSE st.components[entity.component].attributes[entity.attribute].value

\* The fixed table of bounds.
BoundsTable ==
    {[component |-> "cooler", unit |-> "F", min |-> 34, max |-> 44],
     [component |-> "cooler", unit |-> "C", min |-> 1, max |-> 6],
     [component |-> "freezer", unit |-> "F", min |-> -8, max |-> 5],
     [component |-> "freezer", unit |-> "C", min |-> -22, max |-> -15]}

TableRows ==
    {row \in BoundsTable : row.component = entity.component /\ row.unit = CachedUnit}

\* C6: minimum() and maximum() are the table's row for (component, cached
\* unit) when there is one, and the descriptor's min_value and max_value
\* for every other component or unit.
C6_BoundsTable ==
    /\ \A row \in TableRows :
          /\ native_min_value(entity, status) = row.min
          /\ native_max_value(entity, status) = row.max
    /\ TableRows = {} =>
          /\ native_min_value(entity, status) = entity.min_value
          /\ native_max_value(entity, status) = entity.max_value

\* C6 witness: a freezer in Celsius whose descriptor says 5..35 reports
\* -22..-15.
C6_Witness ==
    /\ entity.component = "freezer"
    /\ CachedUnit = "C"
    /\ entity.min_value = 5
    /\ entity.max_value = 35
    /\ native_min_value(entity, status) = -22
    /\ native_max_value(entity, status) = -15

\* C7: unit() maps the cached unit "C" to Celsius and "F" to Fahrenheit,
\* returns any other non-empty unit unchanged, and returns the descriptor's
\* unit (possibly None) for an absent or empty cached unit.
C7_UnitTranslation ==
    /\ CachedUnit = "C" => native_unit_of_measurement(entity, status) = CELSIUS
    /\ CachedUnit = "F" => native_unit_of_measurement(entity, status) = FAHRENHEIT
    /\ CachedUnit \notin {"C", "F", "", None} =>
          native_unit_of_measurement(entity, status) = CachedUnit
    /\ CachedUnit \in {"", None} =>
          native_unit_of_measurement(entity, status) = entity.unit_of_measurement

\* C7 witness: the cache holds no unit and the descriptor's unit is returned.
C7_Witness ==
    /\ CachedUnit = None
    /\ entity.unit_of_measurement = "%"
    /\ native_unit_of_measurement(entity, status) = "%"

\* C8: the unique id is "{device_id}.{attribute}" for "main" and
\* "{device_id}.{component}.{attribute}" otherwise, the name is
\* "{label} {name}" for "main" and "{label} {component} {name}" otherwise,
\* and no step (set_value, read, refresh) changes either.
C8_IdentityAndName ==
    /\ [](/\ entity.component = MAIN =>
                /\ unique_id(entity) = entity.device_id \o "." \o entity.attribute
                /\ name(entity) = entity.label \o " " \o entity.name
          /\ entity.component # MAIN =>
                /\ unique_id(entity) = entity.device_id \o "." \o entity.component
                                          \o "." \o entity.attribute
                /\ name(entity) = entity.label \o " " \o entity.component
                                     \o " " \o entity.name)
    /\ [][/\ unique_id(entity') = unique_id(entity)
          /\ name(entity') = name(entity)]_vars

\* C8 witness: after a set_value and a refresh of its cell, a cooler entity
\* still has its component in both strings.
C8_Witness ==
    /\ call = "returned"
    /\ CachedValue(status) # writes[1].state
    /\ unique_id(entity) = "d1.cooler.coolingSetpoint"
    /\ name(entity) = "Device1 cooler Cooling Setpoint"

\* C9: only the owner's refresh changes the status cache; a read of
\* current_value() returns the cached value of the entity's (component,
\* attribute) at that moment; and the state written when set_value(v)
\* resumes is the cached value at that moment, not v.
C9_CacheNeverMutated ==
    [][/\ status' # status => refresh
       /\ observed' # observed => observed' = <<CachedValue(status')>>
       /\ (call = "awaiting" /\ call' = "returned") =>
             writes' = <<[state |-> CachedValue(status')]>>]_vars

\* C9 witness: set_value(21.7) has returned and the state written is the
\* cached 3, not 21.
C9_Witness ==
    /\ call = "returned"
    /\ arg = 217
    /\ writes = <<[state |-> 3]>>
    /\ CachedValue(status) = 3
    /\ entity.component = "room2"

====
